---- MODULE Spec2Model ----
\* Model of src/cleverly_web.py: the session store (CHAT_SESSIONS guarded by
\* SESSIONS_LOCK), the /chat handler stream() with its response generators
\* generate() and empty_stream(), and the /reset handler reset_chat().
\*
\* Text is a sequence of one-character strings, so that strip() and join()
\* are computed and not assumed.  A request runs in a slot of Reqs (one server
\* thread per slot); a slot is reused when its response has ended.
EXTENDS Integers, Sequences, FiniteSets, TLC

\* ---------------------------------------------------------------- bounds
\* The program's limits are 24 and 200 (src/cleverly_web.py:26-27); the model
\* runs the same code with small limits so that trimming and eviction happen.
MAX_HISTORY_MESSAGES == 2
MAX_SESSIONS == 1
\* time.time() is read as the value of a clock that ticks at most MaxClock times
MaxClock == 1
\* a backend stream yields at most MaxChunks chunks with content
MaxChunks == 2
\* chat requests the single thread of Spec serves in one run
MaxRequests == 1

MAX_PROMPT_LENGTH == 6000
MAX_SYSTEM_PROMPT_LENGTH == 4000

\* ---------------------------------------------------------------- inputs
Reqs == {1, 2}
\* "chat_id" values of a payload that are their own sanitized form
ChatIds == {<<"c", "1">>, <<"c", "2">>}
WHITESPACE == {" ", "\n", "\r", "\t"}
\* raw "msg" values of a payload
RawMsgs == {<<>>, <<" ">>, <<"a">>, <<" ", "b", "\r", "\n">>}
ModelKeys == {"fast", "turbo"}
\* text content of a backend chunk
Fragments == {<<" ", "h", "e", "l", "l", "o">>, <<" ">>}
\* the chunks a backend stream can yield: a dict with message.content, a dict
\* without content, an object that is not a dict, a dict whose "message" is None
Chunks ==
    [kind : {"dict"}, content : Fragments]
        \cup {[kind |-> "dict", content |-> <<>>],
              [kind |-> "object", content |-> <<>>],
              [kind |-> "nomessage", content |-> <<>>]}
\* str(exc) of a backend failure
BackendErrors == {"connection refused"}
NoneType == "AttributeError: 'NoneType' object has no attribute 'get'"
EMPTY_MESSAGE == "Message is empty. Provide text or regenerate an existing response."

MODEL_CHOICES ==
    [normal |-> "qwen3:8b", balanced |-> "llama3:8b", fast |-> "ministral-3:3b"]

\* ---------------------------------------------------------------- text
RECURSIVE lstrip(_)
lstrip(s) ==
    IF s # <<>> /\ Head(s) \in WHITESPACE THEN lstrip(Tail(s)) ELSE s

RECURSIVE rstrip(_)
rstrip(s) ==
    IF s # <<>> /\ s[Len(s)] \in WHITESPACE
    THEN rstrip(SubSeq(s, 1, Len(s) - 1))
    ELSE s

strip(s) == rstrip(lstrip(s))

RECURSIVE replace_crlf(_)
replace_crlf(s) ==
    IF Len(s) < 2 THEN s
    ELSE IF s[1] = "\r" /\ s[2] = "\n"
         THEN <<"\n">> \o replace_crlf(SubSeq(s, 3, Len(s)))
         ELSE <<s[1]>> \o replace_crlf(Tail(s))

normalize_text(value, max_len) ==
    LET text == strip(replace_crlf(value))
    IN  IF Len(text) > max_len THEN SubSeq(text, 1, max_len) ELSE text

RECURSIVE join(_)
join(parts) ==
    IF parts = <<>> THEN <<>> ELSE Head(parts) \o join(Tail(parts))

\* str.isalnum() is true of every Unicode letter and digit: the ASCII ones and
\* the others, of which U+00E9 (e with acute accent) stands here
ASCII_ALNUM == {"a", "b", "c", "e", "f", "x", "0", "1", "2", "3", "4", "9"}
UNICODE_ALNUM == {"U+00E9"}
isalnum(ch) == ch \in ASCII_ALNUM \union UNICODE_ALNUM

\* str(uuid.uuid4()): a random draw from the version 4 uuids
UUIDS == {<<"9", "b", "-", "4", "e">>, <<"0", "f", "-", "4", "a">>}
MAX_CHAT_ID_LENGTH == 64

sanitize_chat_id(value, create_if_empty, uuid) ==
    LET raw == strip(value)
        keep(ch) == isalnum(ch) \/ ch \in {"-", "_"}
        safe == SelectSeq(raw, keep)
    IN  IF raw = <<>> \/ safe = <<>>
        THEN IF create_if_empty THEN uuid ELSE <<>>
        ELSE IF Len(safe) > MAX_CHAT_ID_LENGTH
             THEN SubSeq(safe, 1, MAX_CHAT_ID_LENGTH)
             ELSE safe

\* lines 20-23, of which the first words stand here
DEFAULT_SYSTEM_PROMPT ==
    <<"Y", "o", "u", " ", "a", "r", "e", " ", "C", "l", "e", "v", "e", "r", "l", "y">>

\* lines 151-156
system_prompt_of(value) ==
    LET text == normalize_text(value, MAX_SYSTEM_PROMPT_LENGTH)
    IN  IF text = <<>> THEN DEFAULT_SYSTEM_PROMPT ELSE text

model_name_of(model_key) ==
    IF model_key \in DOMAIN MODEL_CHOICES
    THEN MODEL_CHOICES[model_key]
    ELSE MODEL_CHOICES["normal"]

\* ---------------------------------------------------------------- messages
Msg(role, content) == [role |-> role, content |-> content]

RECURSIVE pop_leading_assistant(_)
pop_leading_assistant(messages) ==
    IF messages # <<>> /\ Head(messages).role = "assistant"
    THEN pop_leading_assistant(Tail(messages))
    ELSE messages

\* trim_history cutting one message too late
trim_history_late(messages) ==
    IF Len(messages) <= MAX_HISTORY_MESSAGES + 1
    THEN messages
    ELSE pop_leading_assistant(
            SubSeq(messages, Len(messages) - MAX_HISTORY_MESSAGES + 1, Len(messages)))

trim_history(messages) ==
    IF Len(messages) <= MAX_HISTORY_MESSAGES
    THEN messages
    ELSE pop_leading_assistant(
            SubSeq(messages, Len(messages) - MAX_HISTORY_MESSAGES + 1, Len(messages)))

\* ---------------------------------------------------------------- store
\* CHAT_SESSIONS is a dict: a sequence of entries in insertion order.
Entry(id, messages, last_user, last_seen) ==
    [chat_id |-> id, messages |-> messages, last_user |-> last_user,
     last_seen |-> last_seen]

Keys(S) == {S[i].chat_id : i \in 1..Len(S)}
IndexOf(S, id) == CHOOSE i \in 1..Len(S) : S[i].chat_id = id
Get(S, id) == S[IndexOf(S, id)]
Put(S, e) == [S EXCEPT ![IndexOf(S, e.chat_id)] = e]
Remove(S, i) == SubSeq(S, 1, i - 1) \o SubSeq(S, i + 1, Len(S))
MessagesOf(S, id) == IF id \in Keys(S) THEN Get(S, id).messages ELSE <<>>
pop(S, id) == IF id \in Keys(S) THEN Remove(S, IndexOf(S, id)) ELSE S
setdefault(S, id, t) ==
    IF id \in Keys(S) THEN S ELSE Append(S, Entry(id, <<>>, <<>>, t))

\* the items left in insertion order
sorted_unsorted(S) == S

\* sorted(items, key=last_seen): stable, so ties stay in insertion order
RECURSIVE sorted(_)
sorted(S) ==
    IF S = <<>> THEN <<>>
    ELSE LET i == CHOOSE k \in 1..Len(S) :
                    /\ \A j \in 1..Len(S) : S[k].last_seen <= S[j].last_seen
                    /\ \A j \in 1..(k - 1) : S[j].last_seen > S[k].last_seen
         IN  <<S[i]>> \o sorted(Remove(S, i))

RECURSIVE pop_all(_, _)
pop_all(S, drop) ==
    IF drop = <<>> THEN S ELSE pop_all(pop(S, Head(drop).chat_id), Tail(drop))

cleanup_sessions_unlocked(S) ==
    IF Len(S) <= MAX_SESSIONS
    THEN S
    ELSE pop_all(S, SubSeq(sorted(S), 1, Len(S) - MAX_SESSIONS))

\* ---------------------------------------------------------------- state
VARIABLES
    CHAT_SESSIONS,  \* the session dict
    SESSIONS_LOCK,  \* 0 when free, else the slot whose thread holds it
    now,            \* time.time()
    pc,             \* where each slot's request is
    req,            \* the request's locals: chat_id, model_name, prompt, regenerate
    state,          \* the session object the request holds inside "with SESSIONS_LOCK"
    context_messages, \* the request's snapshot of the history
    assistant_parts,  \* the generator's accumulated fragments
    approx_tokens,
    out,            \* units written to the client
    connected,      \* FALSE once the client has gone away
    requests        \* chat requests accepted so far

vars == <<CHAT_SESSIONS, SESSIONS_LOCK, now, pc, req, state, context_messages,
          assistant_parts, approx_tokens, out, connected, requests>>

NoReq == [chat_id |-> <<>>, model_name |-> "", system_prompt |-> <<>>, prompt |-> <<>>,
          regenerate |-> FALSE]
NoState == Entry(<<>>, <<>>, <<>>, 0)

Init ==
    /\ CHAT_SESSIONS = <<>>
    /\ SESSIONS_LOCK = 0
    /\ now = 0
    /\ pc = [r \in Reqs |-> "idle"]
    /\ req = [r \in Reqs |-> NoReq]
    /\ state = [r \in Reqs |-> NoState]
    /\ context_messages = [r \in Reqs |-> <<>>]
    /\ assistant_parts = [r \in Reqs |-> <<>>]
    /\ approx_tokens = [r \in Reqs |-> 0]
    /\ out = [r \in Reqs |-> <<>>]
    /\ connected = [r \in Reqs |-> TRUE]
    /\ requests = 0

\* ---------------------------------------------------------------- units
\* sse(payload) frames one JSON object as a "data:" event; a payload is a
\* record whose domain is the set of its keys.  The completion unit's
\* elapsed_ms, a wall-clock reading no claim is about, is left out.
sse(payload) == [data |-> payload]
MetaUnit(r) == sse([meta |-> [chat_id |-> req[r].chat_id, model |-> req[r].model_name]])
ContentUnit_tagged(content) == sse([content |-> content, meta |-> [model |-> "fast"]])
ContentUnit(content) == sse([content |-> content])
\* an error unit without the done flag
ErrorUnit_nodone(message) == sse([error |-> message])
ErrorUnit(message) == sse([error |-> message, done |-> TRUE])
DoneUnit(r) ==
    sse([done |-> TRUE,
         meta |-> [approx_tokens |-> approx_tokens[r],
                   chat_id |-> req[r].chat_id]])

max(a, b) == IF a >= b THEN a ELSE b
approx_tokens_of_ceiling(content) == max(1, (Len(content) + 3) \div 4)
approx_tokens_of(content) == max(1, Len(content) \div 4)

\* "yield unit": the server writes the unit to the client and resumes the
\* generator at `next`; when the client has gone the write fails, the server
\* closes the generator and GeneratorExit (no Exception) ends it at the yield.
Yield(r, unit, next) ==
    IF connected[r]
    THEN /\ out' = [out EXCEPT ![r] = Append(@, unit)]
         /\ pc' = [pc EXCEPT ![r] = next]
    ELSE /\ out' = out
         /\ pc' = [pc EXCEPT ![r] = "closed"]

\* ---------------------------------------------------------------- /chat
\* stream(), lines 144-173: the payload is parsed and normalised; the request
\* is served by the first free thread
BeginPayload(r, chat_id, model_key, system_prompt, msg, regenerate) ==
    /\ pc[r] = "idle"
    /\ \A q \in Reqs : q < r => pc[q] # "idle"
    /\ requests' = requests + 1
    /\ \E uuid \in UUIDS :
        req' = [req EXCEPT ![r] =
                [chat_id |-> sanitize_chat_id(chat_id, TRUE, uuid),
                 model_name |-> model_name_of(model_key),
                 system_prompt |-> system_prompt_of(system_prompt),
                 prompt |-> normalize_text(msg, MAX_PROMPT_LENGTH),
                 regenerate |-> regenerate]]
    /\ pc' = [pc EXCEPT ![r] = "lock"]
    /\ UNCHANGED <<CHAT_SESSIONS, SESSIONS_LOCK, now, state, context_messages,
                   assistant_parts, approx_tokens, out, connected>>

\* a payload without "system_prompt": line 152 takes the default
Begin(r, chat_id, model_key, msg, regenerate) ==
    BeginPayload(r, chat_id, model_key, DEFAULT_SYSTEM_PROMPT, msg, regenerate)

\* line 175: with SESSIONS_LOCK
StreamAcquire(r) ==
    /\ pc[r] = "lock"
    /\ SESSIONS_LOCK = 0
    /\ SESSIONS_LOCK' = r
    /\ pc' = [pc EXCEPT ![r] = "turn"]
    /\ UNCHANGED <<CHAT_SESSIONS, now, req, state, context_messages, assistant_parts,
                   approx_tokens, out, connected, requests>>

\* a regenerate that appends the prompt without looking at the last message
turn_append(st, prompt, regenerate) ==
    LET m1 == IF regenerate /\ st.messages # <<>>
                 /\ st.messages[Len(st.messages)].role = "assistant"
              THEN SubSeq(st.messages, 1, Len(st.messages) - 1)
              ELSE st.messages
        p == IF regenerate /\ prompt = <<>> THEN st.last_user ELSE prompt
    IN  IF p = <<>>
        THEN [st |-> [st EXCEPT !.messages = m1], prompt |-> p]
        ELSE [st |-> [st EXCEPT !.messages = Append(m1, Msg("user", p)),
                                !.last_user = p],
              prompt |-> p]

\* a turn that appends the user message and leaves last_user as it was
turn_keeps_last_user(st, prompt, regenerate) ==
    LET m1 == IF regenerate /\ st.messages # <<>>
                 /\ st.messages[Len(st.messages)].role = "assistant"
              THEN SubSeq(st.messages, 1, Len(st.messages) - 1)
              ELSE st.messages
        p == IF regenerate /\ prompt = <<>> THEN st.last_user ELSE prompt
        same == regenerate /\ m1 # <<>> /\ m1[Len(m1)] = Msg("user", p)
    IN  [st |-> [st EXCEPT !.messages = IF p = <<>> \/ same THEN m1
                                        ELSE Append(m1, Msg("user", p))],
         prompt |-> p]

\* a regenerate that leaves the old reply in the history
turn_keeps_assistant(st, prompt, regenerate) ==
    LET p == IF regenerate /\ prompt = <<>> THEN st.last_user ELSE prompt
        m == st.messages
        same == regenerate /\ m # <<>> /\ m[Len(m)] = Msg("user", p)
    IN  [st |-> [st EXCEPT !.messages = IF p = <<>> \/ same THEN m
                                        ELSE Append(m, Msg("user", p)),
                           !.last_user = IF p = <<>> THEN @ ELSE p],
         prompt |-> p]

\* lines 183-197: what the turn does to the session object
turn(st, prompt, regenerate) ==
    IF regenerate
    THEN LET m1 == IF st.messages # <<>> /\ st.messages[Len(st.messages)].role = "assistant"
                   THEN SubSeq(st.messages, 1, Len(st.messages) - 1)
                   ELSE st.messages
             p == IF prompt = <<>> THEN st.last_user ELSE prompt
             m2 == IF p = <<>> THEN m1
                   ELSE IF m1 = <<>> \/ m1[Len(m1)].role # "user"
                        THEN Append(m1, Msg("user", p))
                        ELSE IF m1[Len(m1)].content # p
                             THEN Append(m1, Msg("user", p))
                             ELSE m1
         IN  [st |-> [st EXCEPT !.messages = m2,
                                !.last_user = IF p = <<>> THEN @ ELSE p],
              prompt |-> p]
    ELSE IF prompt # <<>>
         THEN [st |-> [st EXCEPT !.messages = Append(@, Msg("user", prompt)),
                                 !.last_user = prompt],
               prompt |-> prompt]
         ELSE [st |-> st, prompt |-> prompt]

\* a write through the request's reference reaches the dict only while the
\* dict still holds that session object
Store(S, st) == IF st.chat_id \in Keys(S) THEN Put(S, st) ELSE S

\* lines 176-197
StreamTurn(r) ==
    /\ pc[r] = "turn"
    /\ \E S1 \in {setdefault(CHAT_SESSIONS, req[r].chat_id, now)} :
       \E S2 \in {Put(S1, [Get(S1, req[r].chat_id) EXCEPT !.last_seen = now])} :
       \E S3 \in {cleanup_sessions_unlocked(S2)} :
       \E t \in {turn(Get(S2, req[r].chat_id), req[r].prompt, req[r].regenerate)} :
           /\ CHAT_SESSIONS' = Store(S3, t.st)
           /\ state' = [state EXCEPT ![r] = t.st]
           /\ req' = [req EXCEPT ![r].prompt = t.prompt]
    /\ pc' = [pc EXCEPT ![r] = "trim"]
    /\ UNCHANGED <<SESSIONS_LOCK, now, context_messages, assistant_parts,
                   approx_tokens, out, connected, requests>>

\* stream() without the "if not prompt" branch of lines 202-215
StreamTrim_nocheck(r) ==
    /\ pc[r] = "trim"
    /\ LET st == [state[r] EXCEPT !.messages = trim_history(@)]
       IN  /\ CHAT_SESSIONS' = Store(CHAT_SESSIONS, st)
           /\ context_messages' = [context_messages EXCEPT ![r] = st.messages]
    /\ state' = [state EXCEPT ![r] = NoState]
    /\ SESSIONS_LOCK' = 0
    /\ pc' = [pc EXCEPT ![r] = "meta"]
    /\ UNCHANGED <<now, req, assistant_parts, approx_tokens, out, connected, requests>>

\* a critical section that goes on to the response with the lock held
StreamTrim_keeps_lock(r) ==
    /\ pc[r] = "trim"
    /\ LET st == [state[r] EXCEPT !.messages = trim_history(@)]
       IN  /\ CHAT_SESSIONS' = Store(CHAT_SESSIONS, st)
           /\ context_messages' = [context_messages EXCEPT ![r] = st.messages]
    /\ state' = [state EXCEPT ![r] = NoState]
    /\ pc' = [pc EXCEPT ![r] = IF req[r].prompt = <<>> THEN "empty" ELSE "meta"]
    /\ UNCHANGED <<SESSIONS_LOCK, now, req, assistant_parts, approx_tokens, out,
                   connected, requests>>

\* lines 199-200, and the lock is released
StreamTrim(r) ==
    /\ pc[r] = "trim"
    /\ LET st == [state[r] EXCEPT !.messages = trim_history(@)]
       IN  /\ CHAT_SESSIONS' = Store(CHAT_SESSIONS, st)
           /\ context_messages' = [context_messages EXCEPT ![r] = st.messages]
    /\ state' = [state EXCEPT ![r] = NoState]
    /\ SESSIONS_LOCK' = 0
    /\ pc' = [pc EXCEPT ![r] = IF req[r].prompt = <<>> THEN "empty" ELSE "meta"]
    /\ UNCHANGED <<now, req, assistant_parts, approx_tokens, out,
                   connected, requests>>

\* lines 202-215: empty_stream()
EmptyStream(r) ==
    /\ pc[r] = "empty"
    /\ Yield(r, ErrorUnit(EMPTY_MESSAGE), "end")
    /\ UNCHANGED <<CHAT_SESSIONS, SESSIONS_LOCK, now, req, state, context_messages,
                   assistant_parts, approx_tokens, connected, requests>>

\* the backend's view of a snapshot that is the live list itself, not a copy
messages_live(r) ==
    <<Msg("system", req[r].system_prompt)>> \o MessagesOf(CHAT_SESSIONS, req[r].chat_id)

\* line 217: the list handed to chat(), built on the copy of line 200
messages(r) ==
    <<Msg("system", req[r].system_prompt)>> \o context_messages[r]

\* lines 220-224: generate() starts and yields the metadata unit
YieldMeta(r) ==
    /\ pc[r] = "meta"
    /\ Yield(r, MetaUnit(r), "call")
    /\ UNCHANGED <<CHAT_SESSIONS, SESSIONS_LOCK, now, req, state, context_messages,
                   assistant_parts, approx_tokens, connected, requests>>

\* lines 226-235: chat(model, messages, stream=True)
ChatCall(r) ==
    /\ pc[r] = "call"
    /\ pc' = [pc EXCEPT ![r] = "iter"]
    /\ UNCHANGED <<CHAT_SESSIONS, SESSIONS_LOCK, now, req, state, context_messages,
                   assistant_parts, approx_tokens, out, connected,
                   requests>>

\* lines 236-244: one pass of "for chunk in stream_iter"
NextChunk(r, chunk) ==
    /\ pc[r] = "iter"
    /\ IF chunk.kind = "nomessage"
       THEN \* None.get raises AttributeError: lines 268-269
            /\ Yield(r, ErrorUnit(NoneType), "end")
            /\ UNCHANGED <<assistant_parts, approx_tokens>>
       ELSE LET content == IF chunk.kind = "dict" THEN chunk.content ELSE <<>>
            IN  IF content = <<>>
                THEN UNCHANGED <<assistant_parts, approx_tokens, out, pc>>
                ELSE /\ Len(assistant_parts[r]) < MaxChunks
                     /\ assistant_parts' = [assistant_parts EXCEPT ![r] = Append(@, content)]
                     /\ approx_tokens' =
                            [approx_tokens EXCEPT ![r] = @ + approx_tokens_of(content)]
                     /\ Yield(r, ContentUnit(content), "iter")
    /\ UNCHANGED <<CHAT_SESSIONS, SESSIONS_LOCK, now, req, state, context_messages,
                   connected, requests>>

\* the reply joined but not stripped
assistant_text_raw(r) == join(assistant_parts[r])
\* line 246
assistant_text(r) == strip(join(assistant_parts[r]))

\* an except branch that keeps the partial reply
BackendRaise_commits(r, exc) ==
    /\ pc[r] = "iter"
    /\ Yield(r, ErrorUnit(exc), "end")
    /\ CHAT_SESSIONS' =
        IF assistant_text(r) # <<>> /\ req[r].chat_id \in Keys(CHAT_SESSIONS)
        THEN Put(CHAT_SESSIONS,
                 [Get(CHAT_SESSIONS, req[r].chat_id) EXCEPT
                    !.messages = Append(@, Msg("assistant", assistant_text(r)))])
        ELSE CHAT_SESSIONS
    /\ UNCHANGED <<SESSIONS_LOCK, now, req, state, context_messages,
                   assistant_parts, approx_tokens, connected, requests>>

\* the backend raises: lines 268-269
BackendRaise(r, exc) ==
    /\ pc[r] = "iter"
    /\ Yield(r, ErrorUnit(exc), "end")
    /\ UNCHANGED <<CHAT_SESSIONS, SESSIONS_LOCK, now, req, state, context_messages,
                   assistant_parts, approx_tokens, connected, requests>>

\* the backend stream ends: lines 246-247
BackendEnd(r) ==
    /\ pc[r] = "iter"
    /\ pc' = [pc EXCEPT ![r] = IF assistant_text(r) # <<>> THEN "lock2" ELSE "done"]
    /\ UNCHANGED <<CHAT_SESSIONS, SESSIONS_LOCK, now, req, state, context_messages,
                   assistant_parts, approx_tokens, out, connected,
                   requests>>

\* line 248: with SESSIONS_LOCK
CommitAcquire(r) ==
    /\ pc[r] = "lock2"
    /\ SESSIONS_LOCK = 0
    /\ SESSIONS_LOCK' = r
    /\ pc' = [pc EXCEPT ![r] = "commit"]
    /\ UNCHANGED <<CHAT_SESSIONS, now, req, state, context_messages, assistant_parts,
                   approx_tokens, out, connected, requests>>

\* a commit that also clears last_user
commit_clears_last_user(S, id, text, t) ==
    LET S1 == setdefault(S, id, t)
        live == Get(S1, id)
    IN  Put(S1, [live EXCEPT !.messages = Append(@, Msg("assistant", text)),
                             !.last_user = <<>>,
                             !.last_seen = t])

\* lines 249-254
commit(S, id, text, t) ==
    LET S1 == setdefault(S, id, t)
        live == Get(S1, id)
    IN  Put(S1, [live EXCEPT !.messages = Append(@, Msg("assistant", text)),
                             !.last_seen = t])

\* the reply appended to the request's snapshot, which then replaces the history
CommitAppend_snapshot(r) ==
    /\ pc[r] = "commit"
    /\ LET S1 == setdefault(CHAT_SESSIONS, req[r].chat_id, now)
       IN  CHAT_SESSIONS' =
             Put(S1, [Get(S1, req[r].chat_id) EXCEPT
                        !.messages = Append(context_messages[r],
                                            Msg("assistant", assistant_text(r))),
                        !.last_seen = now])
    /\ pc' = [pc EXCEPT ![r] = "committrim"]
    /\ UNCHANGED <<SESSIONS_LOCK, now, req, state, context_messages, assistant_parts,
                   approx_tokens, out, connected, requests>>

CommitAppend(r) ==
    /\ pc[r] = "commit"
    /\ CHAT_SESSIONS' = commit(CHAT_SESSIONS, req[r].chat_id, assistant_text(r), now)
    /\ pc' = [pc EXCEPT ![r] = "committrim"]
    /\ UNCHANGED <<SESSIONS_LOCK, now, req, state, context_messages, assistant_parts,
                   approx_tokens, out, connected, requests>>

\* a commit that trims and leaves the with block without releasing the lock
CommitTrim_keeps_lock(r) ==
    /\ pc[r] = "committrim"
    /\ LET live == Get(CHAT_SESSIONS, req[r].chat_id)
       IN  CHAT_SESSIONS' = Put(CHAT_SESSIONS, [live EXCEPT !.messages = trim_history(@)])
    /\ pc' = [pc EXCEPT ![r] = "done"]
    /\ UNCHANGED <<SESSIONS_LOCK, now, req, state, context_messages, assistant_parts,
                   approx_tokens, out, connected, requests>>

\* line 255, and the lock is released
CommitTrim(r) ==
    /\ pc[r] = "committrim"
    /\ LET live == Get(CHAT_SESSIONS, req[r].chat_id)
       IN  CHAT_SESSIONS' = Put(CHAT_SESSIONS, [live EXCEPT !.messages = trim_history(@)])
    /\ SESSIONS_LOCK' = 0
    /\ pc' = [pc EXCEPT ![r] = "done"]
    /\ UNCHANGED <<now, req, state, context_messages, assistant_parts, approx_tokens,
                   out, connected, requests>>

\* lines 257-267: the completion unit
YieldDone(r) ==
    /\ pc[r] = "done"
    /\ Yield(r, DoneUnit(r), "end")
    /\ UNCHANGED <<CHAT_SESSIONS, SESSIONS_LOCK, now, req, state, context_messages,
                   assistant_parts, approx_tokens, connected, requests>>

\* the response has ended; the thread serves another request
Finish(r) ==
    /\ pc[r] \in {"end", "closed"}
    /\ pc' = [pc EXCEPT ![r] = "idle"]
    /\ req' = [req EXCEPT ![r] = NoReq]
    /\ context_messages' = [context_messages EXCEPT ![r] = <<>>]
    /\ assistant_parts' = [assistant_parts EXCEPT ![r] = <<>>]
    /\ approx_tokens' = [approx_tokens EXCEPT ![r] = 0]
    /\ out' = [out EXCEPT ![r] = <<>>]
    /\ connected' = [connected EXCEPT ![r] = TRUE]
    /\ UNCHANGED <<CHAT_SESSIONS, SESSIONS_LOCK, now, state, requests>>

\* the client disconnects or stops
Disconnect(r) ==
    /\ pc[r] \notin {"idle", "end", "closed"}
    /\ connected[r]
    /\ connected' = [connected EXCEPT ![r] = FALSE]
    /\ UNCHANGED <<CHAT_SESSIONS, SESSIONS_LOCK, now, pc, req, state, context_messages,
                   assistant_parts, approx_tokens, out, requests>>

\* ---------------------------------------------------------------- /reset
\* a reset that reports cleared for every non-empty id
reset_chat_cleared(S, value) ==
    LET chat_id == sanitize_chat_id(value, FALSE, <<>>)
    IN  [store |-> IF chat_id # <<>> THEN pop(S, chat_id) ELSE S,
         response |-> [ok |-> TRUE, chat_id |-> chat_id, cleared |-> chat_id # <<>>]]

\* reset_chat(), lines 131-139: the store it leaves and the response it returns
reset_chat(S, value) ==
    LET chat_id == sanitize_chat_id(value, FALSE, <<>>)
    IN  [store |-> IF chat_id # <<>> THEN pop(S, chat_id) ELSE S,
         response |-> [ok |-> TRUE, chat_id |-> chat_id,
                       cleared |-> chat_id # <<>> /\ chat_id \in Keys(S)]]

\* a /reset request; it takes the lock only for a non-empty sanitized id
Reset(chat_id) ==
    /\ sanitize_chat_id(chat_id, FALSE, <<>>) # <<>> => SESSIONS_LOCK = 0
    /\ CHAT_SESSIONS' = reset_chat(CHAT_SESSIONS, chat_id).store
    /\ UNCHANGED <<SESSIONS_LOCK, now, pc, req, state, context_messages,
                   assistant_parts, approx_tokens, out, connected,
                   requests>>

\* time passes
Tick ==
    /\ now < MaxClock
    /\ now' = now + 1
    /\ UNCHANGED <<CHAT_SESSIONS, SESSIONS_LOCK, pc, req, state, context_messages,
                   assistant_parts, approx_tokens, out, connected,
                   requests>>

\* One server thread, at most MaxRequests requests one after the other, every
\* kind of input.
Next ==
    \/ \E chat_id \in ChatIds, model_key \in ModelKeys, msg \in RawMsgs,
          regenerate \in BOOLEAN :
            requests < MaxRequests /\ Begin(1, chat_id, model_key, msg, regenerate)
    \/ StreamAcquire(1)
    \/ StreamTurn(1)
    \/ StreamTrim(1)
    \/ EmptyStream(1)
    \/ YieldMeta(1)
    \/ ChatCall(1)
    \/ \E chunk \in Chunks : NextChunk(1, chunk)
    \/ \E exc \in BackendErrors : BackendRaise(1, exc)
    \/ BackendEnd(1)
    \/ CommitAcquire(1)
    \/ CommitAppend(1)
    \/ CommitTrim(1)
    \/ YieldDone(1)
    \/ Finish(1)
    \/ Disconnect(1)
    \/ \E chat_id \in ChatIds : Reset(chat_id)
    \/ Tick

Spec == Init /\ [][Next]_vars

\* Two server threads, one request each, running concurrently with each other
\* and with resets; the clients stay connected.
ConcurrentMsgs == {<<>>, <<"a">>}
ConcurrentChunks == {[kind |-> "dict", content |-> <<" ", "h", "e", "l", "l", "o">>]}

NextConcurrent ==
    \/ \E r \in Reqs, chat_id \in ChatIds, msg \in ConcurrentMsgs,
          regenerate \in BOOLEAN :
            Begin(r, chat_id, "fast", msg, regenerate)
    \/ \E r \in Reqs : StreamAcquire(r)
    \/ \E r \in Reqs : StreamTurn(r)
    \/ \E r \in Reqs : StreamTrim(r)
    \/ \E r \in Reqs : EmptyStream(r)
    \/ \E r \in Reqs : YieldMeta(r)
    \/ \E r \in Reqs : ChatCall(r)
    \/ \E r \in Reqs, chunk \in ConcurrentChunks : NextChunk(r, chunk)
    \/ \E r \in Reqs, exc \in BackendErrors : BackendRaise(r, exc)
    \/ \E r \in Reqs : BackendEnd(r)
    \/ \E r \in Reqs : CommitAcquire(r)
    \/ \E r \in Reqs : CommitAppend(r)
    \/ \E r \in Reqs : CommitTrim(r)
    \/ \E r \in Reqs : YieldDone(r)
    \/ \E chat_id \in ChatIds : Reset(chat_id)
    \/ Tick

SpecConcurrent == Init /\ [][NextConcurrent]_vars

\* ================================================================ claims
Last(seq) == seq[Len(seq)]

\* C1: whenever SESSIONS_LOCK is free, every session's history holds at most
\* MAX_HISTORY_MESSAGES messages.
C1_HistoryBounded ==
    SESSIONS_LOCK = 0 =>
        \A i \in 1..Len(CHAT_SESSIONS) :
            Len(CHAT_SESSIONS[i].messages) <= MAX_HISTORY_MESSAGES

\* a request holds the lock, its append has taken the history over the limit
\* and trim_history is the next thing it does
C1_Witness ==
    \E r \in Reqs :
        /\ pc[r] \in {"trim", "committrim"}
        /\ SESSIONS_LOCK = r
        /\ Len(MessagesOf(CHAT_SESSIONS, req[r].chat_id)) > MAX_HISTORY_MESSAGES

\* C2: after every insert into the store (the get-or-create of a chat request
\* and the one of a commit), the store holds at most MAX_SESSIONS sessions.
\* The store starts empty and grows only by those inserts.
C2_StoreBounded == Len(CHAT_SESSIONS) <= MAX_SESSIONS

\* C3: after every history mutation followed by trim_history, that is whenever
\* SESSIONS_LOCK is free, no session's history begins with an assistant message.
C3_NoLeadingAssistant ==
    SESSIONS_LOCK = 0 =>
        \A i \in 1..Len(CHAT_SESSIONS) :
            \/ CHAT_SESSIONS[i].messages = <<>>
            \/ Head(CHAT_SESSIONS[i].messages).role # "assistant"

\* ---------------------------------------------------------------- units of a stream
PayloadKeys(u) == DOMAIN u.data
IsMetaOf(r, u) ==
    /\ PayloadKeys(u) = {"meta"}
    /\ u.data.meta = [chat_id |-> req[r].chat_id, model |-> req[r].model_name]
    /\ req[r].model_name \in {MODEL_CHOICES[k] : k \in DOMAIN MODEL_CHOICES}
IsContent(u) == PayloadKeys(u) = {"content"}
IsCompletion(u) == PayloadKeys(u) = {"done", "meta"} /\ u.data.done = TRUE
IsError(u) == PayloadKeys(u) = {"done", "error"} /\ u.data.done = TRUE
IsTerminal(u) == IsCompletion(u) \/ IsError(u)
ContentUnits(parts) == [i \in 1..Len(parts) |-> ContentUnit(parts[i])]

\* the request has got as far as the backend call of line 226
ReachedBackend(r) ==
    /\ req[r].prompt # <<>>
    /\ \/ pc[r] \in {"call", "iter", "lock2", "commit", "committrim", "done", "end"}
       \/ pc[r] = "closed" /\ out[r] # <<>>

\* C4: the units of a request that reaches the backend call are one metadata
\* unit with the session id and the resolved model, then content units, then
\* one terminal unit (completion or error) that ends the stream: nothing but
\* content between the two, the terminal unit there exactly when the stream
\* has ended without the client going away.
C4_UnitOrder ==
    \A r \in Reqs :
        ReachedBackend(r) =>
            LET o == out[r]
            IN  /\ Len(o) >= 1
                /\ IsMetaOf(r, o[1])
                /\ \A i \in 2..Len(o) :
                        IsContent(o[i]) \/ (i = Len(o) /\ IsTerminal(o[i]))
                /\ pc[r] = "end" <=> (Len(o) >= 2 /\ IsTerminal(o[Len(o)]))

\* a stream that ended with metadata, two content units and the completion unit
C4_Witness ==
    \E r \in Reqs :
        /\ pc[r] = "end"
        /\ Len(out[r]) = 4
        /\ IsMetaOf(r, out[r][1])
        /\ IsContent(out[r][2]) /\ IsContent(out[r][3])
        /\ IsCompletion(out[r][4])

\* C5: when the backend fails after k content fragments, the client has
\* received the metadata unit, the k content units and then one error unit, no
\* completion unit; the failing step leaves the store as it is, and so does
\* every later step of that stream.
C5_BackendFailure ==
    [][\A r \in Reqs :
        /\ (pc[r] = "iter" /\ pc'[r] = "end") =>
             /\ CHAT_SESSIONS' = CHAT_SESSIONS
             /\ Len(out'[r]) = Len(assistant_parts[r]) + 2
             /\ SubSeq(out'[r], 1, Len(out'[r]) - 1)
                    = <<MetaUnit(r)>> \o ContentUnits(assistant_parts[r])
             /\ IsError(Last(out'[r]))
        /\ (pc[r] = "end" /\ IsError(Last(out[r]))) =>
             \A id \in Keys(CHAT_SESSIONS') :
                MessagesOf(CHAT_SESSIONS', id) = MessagesOf(CHAT_SESSIONS, id)
      ]_vars

\* the backend failed after two fragments: two content units, then the error
\* unit, and the session's history is still the one sent to the backend
C5_Witness ==
    \E r \in Reqs :
        /\ pc[r] = "end"
        /\ Len(assistant_parts[r]) = 2
        /\ Len(out[r]) = 4
        /\ IsError(out[r][4])
        /\ req[r].chat_id \in Keys(CHAT_SESSIONS)
        /\ MessagesOf(CHAT_SESSIONS, req[r].chat_id) = context_messages[r]
        /\ context_messages[r] # <<>>

\* what a session says apart from its last_seen
Content(S) ==
    [i \in 1..Len(S) |->
        [chat_id |-> S[i].chat_id, messages |-> S[i].messages,
         last_user |-> S[i].last_user]]

\* C6: a chat request that ends in the empty-prompt error leaves the store as
\* it was: its critical section creates no session, evicts none and changes no
\* history and no last_user.
C6_EmptyPromptFrame ==
    [][\A r \in Reqs :
        (pc[r] \in {"turn", "trim"} /\ req'[r].prompt = <<>>) =>
            Content(CHAT_SESSIONS') = Content(CHAT_SESSIONS)
      ]_vars

\* C7: the effective prompt is empty exactly for an empty msg with regenerate
\* false, or with regenerate true and an empty last_user; such a request never
\* gets to the backend call and its stream is the one error-and-done unit.
C7_EmptyPromptNoBackend ==
    [][\A r \in Reqs :
        /\ (pc[r] = "turn" /\ pc'[r] = "trim") =>
             LET last_user == IF req[r].chat_id \in Keys(CHAT_SESSIONS)
                              THEN Get(CHAT_SESSIONS, req[r].chat_id).last_user
                              ELSE <<>>
             IN  req'[r].prompt = <<>> <=>
                    /\ req[r].prompt = <<>>
                    /\ (~req[r].regenerate \/ last_user = <<>>)
        /\ (pc'[r] \in {"empty", "meta", "call", "iter", "lock2", "commit", "committrim",
                        "done", "end", "closed"} /\ req'[r].prompt = <<>>) =>
             /\ pc'[r] \in {"empty", "end", "closed"}
             /\ out'[r] = IF pc'[r] = "end" THEN <<ErrorUnit(EMPTY_MESSAGE)>> ELSE <<>>
      ]_vars

\* a regenerate request with nothing to regenerate has ended with the error unit
C7_Witness ==
    \E r \in Reqs :
        /\ pc[r] = "end"
        /\ req[r].regenerate
        /\ req[r].prompt = <<>>
        /\ out[r] = <<ErrorUnit(EMPTY_MESSAGE)>>

\* C8: once the client has gone, before the terminal unit was delivered, the
\* turn commits no assistant message and no further unit reaches the client.
C8_NoCommitAfterCancel ==
    [][\A r \in Reqs :
        ~connected[r] =>
            /\ out'[r] = out[r] \/ pc'[r] = "idle"
            /\ (pc[r] = "commit" /\ pc'[r] = "committrim") =>
                    CHAT_SESSIONS' = CHAT_SESSIONS
      ]_vars

\* C9: the commit appends the reply to the session's history as it is at that
\* moment: everything in the live history stays, in order, before the reply,
\* and no other session changes.
C9_CommitToLiveHistory ==
    [][\A r \in Reqs :
        (pc[r] = "commit" /\ pc'[r] = "committrim") =>
            LET id == req[r].chat_id
            IN  /\ id \in Keys(CHAT_SESSIONS')
                /\ MessagesOf(CHAT_SESSIONS', id)
                     = Append(MessagesOf(CHAT_SESSIONS, id),
                              Msg("assistant", assistant_text(r)))
                /\ \A other \in Keys(CHAT_SESSIONS) \ {id} :
                     /\ other \in Keys(CHAT_SESSIONS')
                     /\ Get(CHAT_SESSIONS', other) = Get(CHAT_SESSIONS, other)
      ]_vars

\* a reply committed behind a message that another request appended while the
\* stream was in flight: the live history is longer than snapshot plus reply
C9_Witness ==
    \E r \in Reqs :
        LET m == MessagesOf(CHAT_SESSIONS, req[r].chat_id)
        IN  /\ pc[r] = "committrim"
            /\ Len(m) = Len(context_messages[r]) + 2
            /\ SubSeq(m, 1, Len(context_messages[r])) = context_messages[r]
            /\ m[Len(m) - 1].role = "user"
            /\ Last(m) = Msg("assistant", assistant_text(r))

\* C10 as stated: a stream that completes after emitting a content fragment
\* appends one assistant message whose content is the concatenation of the
\* fragments.
C10_Original ==
    [][\A r \in Reqs :
        /\ (pc[r] = "iter" /\ pc'[r] = "done") => assistant_parts[r] = <<>>
        /\ (pc[r] = "commit" /\ pc'[r] = "committrim") =>
             MessagesOf(CHAT_SESSIONS', req[r].chat_id)
                = Append(MessagesOf(CHAT_SESSIONS, req[r].chat_id),
                         Msg("assistant", join(assistant_parts[r])))
      ]_vars

\* C10 as amended: a stream that completes commits exactly when the
\* concatenation of its fragments is non-empty after stripping white space
\* at both ends, and the commit appends one assistant message whose content is
\* that stripped concatenation.
C10_StrippedReply ==
    [][\A r \in Reqs :
        LET text == strip(join(assistant_parts[r]))
        IN  /\ (pc[r] = "iter" /\ pc'[r] = "done") => text = <<>>
            /\ (pc[r] = "iter" /\ pc'[r] = "lock2") => text # <<>>
            /\ (pc[r] = "commit" /\ pc'[r] = "committrim") =>
                 MessagesOf(CHAT_SESSIONS', req[r].chat_id)
                    = Append(MessagesOf(CHAT_SESSIONS, req[r].chat_id),
                             Msg("assistant", text))
            /\ pc[r] \in {"done", "end", "closed"} => pc'[r] \notin {"lock2", "commit"}
      ]_vars

\* a reply of two fragments committed without the white space around it
C10_Witness ==
    \E r \in Reqs :
        LET m == MessagesOf(CHAT_SESSIONS, req[r].chat_id)
        IN  /\ pc[r] = "committrim"
            /\ Len(assistant_parts[r]) = 2
            /\ strip(join(assistant_parts[r])) # join(assistant_parts[r])
            /\ m # <<>>
            /\ Last(m) = Msg("assistant", strip(join(assistant_parts[r])))

\* ================================================================ regenerate
\* One thread, one session that a finished turn has left ending in a user turn
\* and its reply, and two regenerate requests with no new text, one after the
\* other.
OLD_REPLY == Msg("assistant", <<"o", "l", "d">>)
RegenerateHistories ==
    {h \in {<<Msg("user", <<"a">>), OLD_REPLY>>,
            <<Msg("user", <<"b">>), Msg("user", <<"a">>), OLD_REPLY>>} :
        Len(h) <= MAX_HISTORY_MESSAGES}

InitRegenerate ==
    /\ CHAT_SESSIONS \in {<<Entry(<<"c", "1">>, h, <<"a">>, 0)>> : h \in RegenerateHistories}
    /\ SESSIONS_LOCK = 0
    /\ now = 0
    /\ pc = [r \in Reqs |-> "idle"]
    /\ req = [r \in Reqs |-> NoReq]
    /\ state = [r \in Reqs |-> NoState]
    /\ context_messages = [r \in Reqs |-> <<>>]
    /\ assistant_parts = [r \in Reqs |-> <<>>]
    /\ approx_tokens = [r \in Reqs |-> 0]
    /\ out = [r \in Reqs |-> <<>>]
    /\ connected = [r \in Reqs |-> TRUE]
    /\ requests = 0

NextRegenerate ==
    \/ \E model_key \in ModelKeys, msg \in {<<>>, <<" ">>} :
            requests < 2 /\ Begin(1, <<"c", "1">>, model_key, msg, TRUE)
    \/ StreamAcquire(1)
    \/ StreamTurn(1)
    \/ StreamTrim(1)
    \/ YieldMeta(1)
    \/ ChatCall(1)
    \/ \E chunk \in Chunks : NextChunk(1, chunk)
    \/ \E exc \in BackendErrors : BackendRaise(1, exc)
    \/ BackendEnd(1)
    \/ CommitAcquire(1)
    \/ CommitAppend(1)
    \/ CommitTrim(1)
    \/ YieldDone(1)
    \/ Finish(1)
    \/ Tick

SpecRegenerate == InitRegenerate /\ [][NextRegenerate]_vars

\* the stream of r has completed: its completion unit is due or delivered
Completed(r) ==
    \/ pc[r] = "done"
    \/ pc[r] = "end" /\ IsCompletion(Last(out[r]))

\* C11: through two regenerate requests with empty msg, run one after the
\* other, the user turns of the history stay the ones it started with (none is
\* added), at most one assistant message follows them, every message list
\* handed to the backend is the history up to that same last user turn, and
\* once a regenerate has completed with a reply the history is those user
\* turns followed by that reply alone.
C11_RegenerateIdempotent ==
    \E h \in RegenerateHistories :
        LET users == SubSeq(h, 1, Len(h) - 1)
            m == MessagesOf(CHAT_SESSIONS, <<"c", "1">>)
        IN  /\ <<"c", "1">> \in Keys(CHAT_SESSIONS)
            /\ \/ m = users
               \/ /\ Len(m) = Len(users) + 1
                  /\ SubSeq(m, 1, Len(users)) = users
                  /\ Last(m).role = "assistant"
            /\ pc[1] \in {"meta", "call", "iter", "lock2", "commit", "committrim",
                          "done", "end", "closed"}
                    => /\ context_messages[1] = users
                       /\ Last(context_messages[1]) = Msg("user", req[1].prompt)
            /\ (Completed(1) /\ assistant_text(1) # <<>>)
                    => m = Append(users, Msg("assistant", assistant_text(1)))

\* the second regenerate has completed and its reply has taken the old one's place
C11_Witness ==
    /\ requests = 2
    /\ pc[1] = "end"
    /\ IsCompletion(Last(out[1]))
    /\ assistant_text(1) # <<>>
    /\ Len(MessagesOf(CHAT_SESSIONS, <<"c", "1">>)) = 2
    /\ MessagesOf(CHAT_SESSIONS, <<"c", "1">>)
         = <<Msg("user", <<"a">>), Msg("assistant", assistant_text(1))>>

\* C12: the turn of a non-regenerate request with a non-empty prompt appends
\* one user message holding that prompt to the end of the session's history
\* and sets last_user to it; and when the request commits its reply to the
\* history it took its snapshot of, with room left under the history limit,
\* the history ends with that user message followed by the assistant reply,
\* and holds those two messages alone when the session started empty.
C12_ChatTurn ==
    [][\A r \in Reqs :
        LET id == req[r].chat_id
            prompt == req[r].prompt
            before == MessagesOf(CHAT_SESSIONS, id)
            after == MessagesOf(CHAT_SESSIONS', id)
        IN  /\ (pc[r] = "turn" /\ pc'[r] = "trim" /\ ~req[r].regenerate /\ prompt # <<>>)
                => /\ state'[r].messages = Append(before, Msg("user", prompt))
                   /\ state'[r].last_user = prompt
                   /\ id \in Keys(CHAT_SESSIONS') => Get(CHAT_SESSIONS', id) = state'[r]
            /\ (/\ pc[r] = "committrim" /\ pc'[r] = "done" /\ ~req[r].regenerate
                /\ before = Append(context_messages[r], Msg("assistant", assistant_text(r)))
                /\ Len(before) <= MAX_HISTORY_MESSAGES)
                => /\ Len(after) >= 2
                   /\ SubSeq(after, Len(after) - 1, Len(after))
                        = <<Msg("user", prompt), Msg("assistant", assistant_text(r))>>
                   /\ Len(context_messages[r]) = 1 => Len(after) = 2
    ]_vars

\* a first message to a new session has been answered and the reply committed
C12_Witness ==
    \E r \in Reqs :
        /\ pc[r] = "done"
        /\ ~req[r].regenerate
        /\ assistant_text(r) # <<>>
        /\ context_messages[r] = <<Msg("user", req[r].prompt)>>
        /\ MessagesOf(CHAT_SESSIONS, req[r].chat_id)
             = <<Msg("user", req[r].prompt), Msg("assistant", assistant_text(r))>>

\* ================================================================== progress
\* The two threads of SpecConcurrent under the scheduling the server gives
\* them: a thread that can take a step of its handler or generator takes it
\* (the clients stay connected, so every yield returns), a thread waiting for
\* the lock gets it once the lock is released often enough, and the backend's
\* fragment sequence ends or fails.
Progress(r) ==
    WF_vars(\/ StreamAcquire(r) \/ StreamTurn(r) \/ StreamTrim(r)
            \/ YieldMeta(r) \/ ChatCall(r)
            \/ BackendEnd(r) \/ \E exc \in BackendErrors : BackendRaise(r, exc)
            \/ CommitAcquire(r) \/ CommitAppend(r) \/ CommitTrim(r)
            \/ YieldDone(r))

\* two requests with a message, on the same session or on two, and resets
NextProgress ==
    \/ \E r \in Reqs, chat_id \in ChatIds, regenerate \in BOOLEAN :
            Begin(r, chat_id, "fast", <<"a">>, regenerate)
    \/ \E r \in Reqs : StreamAcquire(r)
    \/ \E r \in Reqs : StreamTurn(r)
    \/ \E r \in Reqs : StreamTrim(r)
    \/ \E r \in Reqs : YieldMeta(r)
    \/ \E r \in Reqs : ChatCall(r)
    \/ \E r \in Reqs, chunk \in ConcurrentChunks : NextChunk(r, chunk)
    \/ \E r \in Reqs, exc \in BackendErrors : BackendRaise(r, exc)
    \/ \E r \in Reqs : BackendEnd(r)
    \/ \E r \in Reqs : CommitAcquire(r)
    \/ \E r \in Reqs : CommitAppend(r)
    \/ \E r \in Reqs : CommitTrim(r)
    \/ \E r \in Reqs : YieldDone(r)
    \/ \E chat_id \in ChatIds : Reset(chat_id)

SpecProgress == Init /\ [][NextProgress]_vars /\ \A r \in Reqs : Progress(r)

\* C13: every request that has reached the backend call goes on to emit a
\* terminal unit as the last unit of its stream, whatever the other thread and
\* the resets do in between.
C13_TerminalUnit ==
    \A r \in Reqs :
        ReachedBackend(r) ~> (pc[r] = "end" /\ IsTerminal(Last(out[r])))

\* a request is past the backend call and waits for the lock that the other
\* request holds
C13_Witness ==
    \E r, q \in Reqs :
        /\ pc[r] = "lock2"
        /\ ReachedBackend(r)
        /\ SESSIONS_LOCK = q
        /\ q # r

\* =================================================================== cleanup
\* One request arriving at a store of any content: up to MAX_SESSIONS + 1
\* sessions (the commit of lines 249-255 can leave one more than MAX_SESSIONS),
\* each last seen at any time up to now.
CleanupIds == {<<"c", "1">>, <<"c", "2">>, <<"c", "3">>, <<"c", "4">>}
CleanupStores ==
    LET entries == {Entry(id, <<>>, <<>>, t) : id \in CleanupIds, t \in 0..MaxClock}
        seqs == UNION {[1..n -> entries] : n \in 0..(MAX_SESSIONS + 1)}
    IN  {S \in seqs : \A i, j \in 1..Len(S) : S[i].chat_id = S[j].chat_id => i = j}

InitCleanup ==
    /\ CHAT_SESSIONS \in CleanupStores
    /\ SESSIONS_LOCK = 0
    /\ now = MaxClock
    /\ pc = [r \in Reqs |-> "idle"]
    /\ req = [r \in Reqs |-> NoReq]
    /\ state = [r \in Reqs |-> NoState]
    /\ context_messages = [r \in Reqs |-> <<>>]
    /\ assistant_parts = [r \in Reqs |-> <<>>]
    /\ approx_tokens = [r \in Reqs |-> 0]
    /\ out = [r \in Reqs |-> <<>>]
    /\ connected = [r \in Reqs |-> TRUE]
    /\ requests = 0

NextCleanup ==
    \/ \E chat_id \in CleanupIds :
            requests < 1 /\ Begin(1, chat_id, "fast", <<"a">>, FALSE)
    \/ StreamAcquire(1)
    \/ StreamTurn(1)
    \/ StreamTrim(1)
    \/ YieldMeta(1)
    \/ ChatCall(1)
    \/ \E chunk \in ConcurrentChunks : NextChunk(1, chunk)
    \/ BackendEnd(1)
    \/ CommitAcquire(1)
    \/ CommitAppend(1)
    \/ CommitTrim(1)
    \/ YieldDone(1)

SpecCleanup == InitCleanup /\ [][NextCleanup]_vars

\* C14: the cleanup of a request's critical section removes nothing from a
\* store of at most MAX_SESSIONS sessions and otherwise removes exactly
\* len(store) - MAX_SESSIONS sessions of the store as it is after the request's
\* session has been inserted and touched, adds none, and every session it
\* evicts was last seen no later than every session it keeps.
C14_Eviction ==
    [][(pc[1] = "turn" /\ pc'[1] = "trim") =>
        LET id == req[1].chat_id
            store == setdefault(CHAT_SESSIONS, id, now)
            last_seen(k) == IF k = id THEN now ELSE Get(CHAT_SESSIONS, k).last_seen
            kept == Keys(CHAT_SESSIONS')
            evicted == Keys(store) \ kept
        IN  /\ kept \subseteq Keys(store)
            /\ Len(CHAT_SESSIONS') = Cardinality(kept)
            /\ Cardinality(evicted) =
                 IF Len(store) > MAX_SESSIONS THEN Len(store) - MAX_SESSIONS ELSE 0
            /\ \A e \in evicted, k \in kept : last_seen(e) <= last_seen(k)
            /\ \A k \in kept : Get(CHAT_SESSIONS', k).last_seen = last_seen(k)
    ]_vars

\* the cleanup has evicted, among the sessions last seen at the same time, the
\* one inserted first: the session of the request itself
C14_Witness ==
    /\ pc[1] = "trim"
    /\ req[1].chat_id \notin Keys(CHAT_SESSIONS)
    /\ Len(CHAT_SESSIONS) = MAX_SESSIONS

\* ======================================================================= ids
\* One chat request and any number of resets, with every kind of raw "chat_id",
\* arriving at a store of any content.
LongId == [i \in 1..(MAX_CHAT_ID_LENGTH + 1) |-> "x"]
RawChatIds ==
    {<<>>, <<" ">>, <<"!">>, <<" ", "c", "!", "1", "\n">>, <<"c", "2">>,
     <<"c", "-", "_">>, <<"c", "U+00E9">>, LongId}

NextIds ==
    \/ \E chat_id \in RawChatIds :
            requests < 1 /\ Begin(1, chat_id, "fast", <<"a">>, FALSE)
    \/ StreamAcquire(1)
    \/ StreamTurn(1)
    \/ StreamTrim(1)
    \/ YieldMeta(1)
    \/ ChatCall(1)
    \/ \E chunk \in ConcurrentChunks : NextChunk(1, chunk)
    \/ BackendEnd(1)
    \/ CommitAcquire(1)
    \/ CommitAppend(1)
    \/ CommitTrim(1)
    \/ YieldDone(1)
    \/ \E chat_id \in RawChatIds \union CleanupIds : Reset(chat_id)

SpecIds == InitCleanup /\ [][NextIds]_vars

\* C15: whatever the store holds and whatever id is sent, /reset answers
\* normally with cleared = true exactly when the store holds a session under
\* the sanitized id; it leaves a store without that session, in which every
\* other session is as it was and in its place, and which holds no session
\* that was not there; for an id that sanitizes to empty or names no session
\* the store is left as it is.
C15_Reset ==
    \A value \in RawChatIds \union CleanupIds :
        LET chat_id == sanitize_chat_id(value, FALSE, <<>>)
            existed == chat_id \in Keys(CHAT_SESSIONS)
            res == reset_chat(CHAT_SESSIONS, value)
            others == SelectSeq(CHAT_SESSIONS, LAMBDA e : e.chat_id # chat_id)
        IN  /\ res.response.ok
            /\ res.response.chat_id = chat_id
            /\ res.response.cleared = existed
            /\ res.store = others
            /\ ~existed => res.store = CHAT_SESSIONS
            /\ <<>> \notin Keys(CHAT_SESSIONS)

\* a reset has removed the session of a request in flight: the session is gone
\* from a store that a cleanup would have left full
C15_Witness ==
    /\ pc[1] = "iter"
    /\ req[1].chat_id \notin Keys(CHAT_SESSIONS)
    /\ Len(CHAT_SESSIONS) < MAX_SESSIONS

\* C16: the session id of every request is non-empty, at most 64 characters
\* long and made of characters from [A-Za-z0-9_-] only.
C16_SanitizedId ==
    \A r \in Reqs :
        pc[r] # "idle" =>
            /\ req[r].chat_id # <<>>
            /\ Len(req[r].chat_id) <= MAX_CHAT_ID_LENGTH
            /\ \A i \in 1..Len(req[r].chat_id) :
                 req[r].chat_id[i] \in ASCII_ALNUM \union {"-", "_"}

\* ==================================================================== tokens
\* One request whose backend yields fragments of one to nine characters.
TokenFragments ==
    {<<"a">>, <<"a", "b", "c">>, <<"a", "b", "c", "e">>, <<"a", "b", "c", "e", "f">>,
     <<"a", "b", "c", "e", "f", "x", "a", "b">>,
     <<"a", "b", "c", "e", "f", "x", "a", "b", "c">>}
TokenChunks == {[kind |-> "dict", content |-> f] : f \in TokenFragments}

NextTokens ==
    \/ \E model_key \in ModelKeys :
            requests < 1 /\ Begin(1, <<"c", "1">>, model_key, <<"a">>, FALSE)
    \/ StreamAcquire(1)
    \/ StreamTurn(1)
    \/ StreamTrim(1)
    \/ YieldMeta(1)
    \/ ChatCall(1)
    \/ \E chunk \in TokenChunks : NextChunk(1, chunk)
    \/ \E exc \in BackendErrors : BackendRaise(1, exc)
    \/ BackendEnd(1)
    \/ CommitAcquire(1)
    \/ CommitAppend(1)
    \/ CommitTrim(1)
    \/ YieldDone(1)

SpecTokens == Init /\ [][NextTokens]_vars

\* the quotient of n by 4 rounded down and rounded up
Floor4(n) == CHOOSE q \in 0..n : 4 * q <= n /\ n < 4 * q + 4
Ceiling4(n) == CHOOSE q \in 0..(n + 1) : 4 * q - 4 < n /\ n <= 4 * q

RECURSIVE SumFloor(_)
SumFloor(units) ==
    IF units = <<>> THEN 0
    ELSE max(1, Floor4(Len(Head(units).data.content))) + SumFloor(Tail(units))

RECURSIVE SumCeiling(_)
SumCeiling(units) ==
    IF units = <<>> THEN 0
    ELSE max(1, Ceiling4(Len(Head(units).data.content))) + SumCeiling(Tail(units))

\* C17 as stated: the approx_tokens of a completion unit is the sum, over the
\* content units emitted before it, of max(1, the fragment's length divided
\* by 4 and rounded up).
C17_Original ==
    \A r \in Reqs :
        (out[r] # <<>> /\ IsCompletion(Last(out[r])))
            => Last(out[r]).data.meta.approx_tokens
                 = SumCeiling(SelectSeq(out[r], IsContent))

\* C17: the approx_tokens of a completion unit is the sum, over the content
\* units emitted before it, of max(1, the fragment's length divided by 4 and
\* rounded down).
C17_ApproxTokens ==
    \A r \in Reqs :
        (out[r] # <<>> /\ IsCompletion(Last(out[r])))
            => Last(out[r]).data.meta.approx_tokens
                 = SumFloor(SelectSeq(out[r], IsContent))

\* a completion unit after two fragments, one of nine characters and one of
\* three
C17_Witness ==
    \E r \in Reqs :
        /\ out[r] # <<>>
        /\ IsCompletion(Last(out[r]))
        /\ Last(out[r]).data.meta.approx_tokens = 3
        /\ Len(assistant_parts[r]) = 2
        /\ Len(assistant_parts[r][1]) = 9
        /\ Len(assistant_parts[r][2]) = 3

\* ===================================================================== units
KindKeys == {"content", "meta", "error"}

\* C18 as stated: every emitted unit has at most one of the keys content, meta
\* and error, done is on the last unit of an ended stream only, and a key that
\* comes with done is meta.
C18_Original ==
    \A r \in Reqs : \A i \in 1..Len(out[r]) :
        LET keys == PayloadKeys(out[r][i])
        IN  /\ Cardinality(keys \intersect KindKeys) <= 1
            /\ "done" \in keys =>
                 /\ i = Len(out[r])
                 /\ pc[r] = "end"
                 /\ keys \ {"done"} \subseteq {"meta"}

\* C18: every emitted unit has at most one of the keys content, meta and
\* error, done is on the last unit of an ended stream only, and a key that
\* comes with done is meta (on a completion unit) or error (on an error unit).
C18_UnitKeys ==
    \A r \in Reqs : \A i \in 1..Len(out[r]) :
        LET keys == PayloadKeys(out[r][i])
        IN  /\ Cardinality(keys \intersect KindKeys) <= 1
            /\ "done" \in keys =>
                 /\ i = Len(out[r])
                 /\ pc[r] = "end"
                 /\ out[r][i].data.done = TRUE
                 /\ keys \ {"done"} \in {{"meta"}, {"error"}}

\* a stream of a metadata unit, a content unit and an error unit with done
C18_Witness ==
    \E r \in Reqs :
        /\ Len(out[r]) = 3
        /\ PayloadKeys(out[r][1]) = {"meta"}
        /\ PayloadKeys(out[r][2]) = {"content"}
        /\ PayloadKeys(out[r][3]) = {"error", "done"}

\* C19: a stream that has ended has emitted, after its terminal unit, a comment
\* line (an item that is not a data frame), and that line is its last item.
C19_CommentLine ==
    \A r \in Reqs :
        (pc[r] = "end" /\ connected[r]) =>
            /\ Len(out[r]) >= 2
            /\ "data" \notin DOMAIN Last(out[r])
            /\ IsTerminal(out[r][Len(out[r]) - 1])

\* ====================================================================== lock
\* C20: a thread holds the session lock only inside the two critical sections,
\* the turn with its snapshot and the commit; it does not hold it while its
\* request waits, yields a unit, calls the backend or consumes a fragment, and
\* inside a critical section it is the one that holds it.
C20_LockScope ==
    \A r \in Reqs :
        /\ pc[r] \in {"turn", "trim", "commit", "committrim"} <=> SESSIONS_LOCK = r
        /\ pc[r] \in {"idle", "lock", "empty", "meta", "call", "iter", "lock2", "done",
                      "end", "closed"} => SESSIONS_LOCK # r

\* one request is consuming the backend's fragments while the other is inside
\* its critical section
C20_Witness ==
    \E r, q \in Reqs :
        /\ pc[r] = "iter"
        /\ assistant_parts[r] # <<>>
        /\ SESSIONS_LOCK = q
        /\ pc[q] \in {"turn", "trim", "commit", "committrim"}

\* ================================================================== snapshot
\* Two threads, requests with and without a system prompt of their own on the
\* same session or on two, and resets.
SystemPrompts == {<<>>, <<" ", "s", "\r", "\n">>}

NextSnapshot ==
    \/ \E r \in Reqs, chat_id \in ChatIds, system_prompt \in SystemPrompts,
          regenerate \in BOOLEAN :
            BeginPayload(r, chat_id, "fast", system_prompt, <<"a">>, regenerate)
    \/ \E r \in Reqs : StreamAcquire(r)
    \/ \E r \in Reqs : StreamTurn(r)
    \/ \E r \in Reqs : StreamTrim(r)
    \/ \E r \in Reqs : YieldMeta(r)
    \/ \E r \in Reqs : ChatCall(r)
    \/ \E r \in Reqs, chunk \in ConcurrentChunks : NextChunk(r, chunk)
    \/ \E r \in Reqs, exc \in BackendErrors : BackendRaise(r, exc)
    \/ \E r \in Reqs : BackendEnd(r)
    \/ \E r \in Reqs : CommitAcquire(r)
    \/ \E r \in Reqs : CommitAppend(r)
    \/ \E r \in Reqs : CommitTrim(r)
    \/ \E r \in Reqs : YieldDone(r)
    \/ \E chat_id \in ChatIds : Reset(chat_id)

SpecSnapshot == Init /\ [][NextSnapshot]_vars

\* the request has taken its snapshot and its stream has not ended
InFlight == {"meta", "call", "iter", "lock2", "commit", "committrim", "done"}

\* C21: the list for the backend is, when the request leaves its critical
\* section, the system message followed by the session's history as trimmed
\* there (the live history, when the store still holds the session), and no
\* step taken while the stream is in flight changes it.
C21_Snapshot ==
    [][\A r \in Reqs :
        /\ (pc[r] = "trim" /\ pc'[r] \in InFlight)
            => /\ messages(r)' = <<Msg("system", req[r].system_prompt)>>
                                    \o trim_history(state[r].messages)
               /\ req[r].chat_id \in Keys(CHAT_SESSIONS')
                    => messages(r)' = <<Msg("system", req[r].system_prompt)>>
                                        \o MessagesOf(CHAT_SESSIONS', req[r].chat_id)
               /\ Len(messages(r)') <= MAX_HISTORY_MESSAGES + 1
        /\ (pc[r] \in InFlight /\ pc'[r] \in InFlight) => messages(r)' = messages(r)
    ]_vars

\* a stream is consuming the backend's answer to a snapshot that the session's
\* history, changed by the other request, no longer equals
C21_Witness ==
    \E r \in Reqs :
        /\ pc[r] = "iter"
        /\ req[r].chat_id \in Keys(CHAT_SESSIONS)
        /\ MessagesOf(CHAT_SESSIONS, req[r].chat_id) # context_messages[r]
        /\ req[r].system_prompt = <<"s">>
        /\ messages(r) = <<Msg("system", <<"s">>), Msg("user", <<"a">>)>>

\* C22: the turn of a regenerate request leaves the history without its
\* trailing assistant message, if it ended with one; with an empty msg the
\* prompt becomes last_user, and no user message is appended when what is left
\* ends with a user message of that content; the history then stays as it is
\* through the backend call, and a successful commit appends the new reply to
\* it: [user a, assistant b] is [user a] during the call and
\* [user a, assistant new] after.
C22_Regenerate ==
    [][LET id == req[1].chat_id
           before == MessagesOf(CHAT_SESSIONS, id)
           after == MessagesOf(CHAT_SESSIONS', id)
           popped == IF before # <<>> /\ Last(before).role = "assistant"
                     THEN SubSeq(before, 1, Len(before) - 1)
                     ELSE before
           last_user == Get(CHAT_SESSIONS, id).last_user
       IN  /\ (pc[1] = "turn" /\ pc'[1] = "trim" /\ req[1].regenerate)
                => /\ SubSeq(after, 1, Len(popped)) = popped
                   /\ req[1].prompt = <<>> => req'[1].prompt = last_user
                   /\ (popped # <<>> /\ Last(popped) = Msg("user", req'[1].prompt))
                        => after = popped
                   /\ (before = <<Msg("user", <<"a">>), OLD_REPLY>> /\ last_user = <<"a">>)
                        => after = <<Msg("user", <<"a">>)>>
           /\ (pc[1] \in {"meta", "call", "iter"} /\ req[1].regenerate)
                => /\ before = context_messages[1]
                   /\ Last(before) = Msg("user", req[1].prompt)
           /\ (pc[1] = "commit" /\ pc'[1] = "committrim" /\ req[1].regenerate)
                => after = Append(context_messages[1],
                                  Msg("assistant", assistant_text(1)))
    ]_vars

\* the first regenerate is consuming the backend's fragments: the old reply is
\* gone from the history and last_user is the prompt
C22_Witness ==
    /\ requests = 1
    /\ pc[1] = "iter"
    /\ req[1].regenerate
    /\ req[1].prompt = <<"a">>
    /\ assistant_parts[1] # <<>>
    /\ MessagesOf(CHAT_SESSIONS, <<"c", "1">>) = <<Msg("user", <<"a">>)>>

\* ================================================================= fragments
\* C23: a pass of the loop over a chunk with no extractable content emits no
\* unit, leaves the accumulated parts and the token count as they are and
\* leaves the stream in the loop; a pass over a chunk with content emits, to a
\* connected client, the content unit of that chunk after the units emitted so
\* far.
C23_SkipEmpty ==
    [][\A r \in Reqs, chunk \in Chunks :
        NextChunk(r, chunk) =>
            IF chunk.content = <<>>
            THEN /\ out'[r] = out[r]
                 /\ assistant_parts'[r] = assistant_parts[r]
                 /\ approx_tokens'[r] = approx_tokens[r]
                 /\ pc'[r] = "iter"
            ELSE /\ assistant_parts'[r] = Append(assistant_parts[r], chunk.content)
                 /\ connected[r] => out'[r] = Append(out[r], ContentUnit(chunk.content))
    ]_vars

\* ================================================================== sessions
\* C24: a session that is not in the store (it never was, or a reset removed
\* it) comes into the store only by the turn of a chat request for its id; the
\* commit of a stream that was in flight does not bring it in.
C24_ResetStays ==
    [][\A id \in Keys(CHAT_SESSIONS') \ Keys(CHAT_SESSIONS) :
        \E r \in Reqs :
            /\ req[r].chat_id = id
            /\ pc[r] = "turn"
            /\ pc'[r] = "trim"
    ]_vars

\* Two threads, one request each for the same session id, and no reset.
NextSameSession ==
    \/ \E r \in Reqs, msg \in ConcurrentMsgs, regenerate \in BOOLEAN :
            Begin(r, <<"c", "1">>, "fast", msg, regenerate)
    \/ \E r \in Reqs : StreamAcquire(r)
    \/ \E r \in Reqs : StreamTurn(r)
    \/ \E r \in Reqs : StreamTrim(r)
    \/ \E r \in Reqs : EmptyStream(r)
    \/ \E r \in Reqs : YieldMeta(r)
    \/ \E r \in Reqs : ChatCall(r)
    \/ \E r \in Reqs, chunk \in ConcurrentChunks : NextChunk(r, chunk)
    \/ \E r \in Reqs, exc \in BackendErrors : BackendRaise(r, exc)
    \/ \E r \in Reqs : BackendEnd(r)
    \/ \E r \in Reqs : CommitAcquire(r)
    \/ \E r \in Reqs : CommitAppend(r)
    \/ \E r \in Reqs : CommitTrim(r)
    \/ \E r \in Reqs : YieldDone(r)

SpecSameSession == Init /\ [][NextSameSession]_vars

\* C25: no history in the store holds two assistant messages one after the
\* other.
C25_NoTwoAssistants ==
    \A i \in 1..Len(CHAT_SESSIONS) :
        LET m == CHAT_SESSIONS[i].messages
        IN  \A k \in 1..(Len(m) - 1) :
                ~(m[k].role = "assistant" /\ m[k + 1].role = "assistant")

\* Two threads, one request each for the same session id, with prompts that
\* differ, and resets.
TwoPrompts == {<<>>, <<"a">>, <<"b">>}

NextTwoPrompts ==
    \/ \E r \in Reqs, msg \in TwoPrompts, regenerate \in BOOLEAN :
            Begin(r, <<"c", "1">>, "fast", msg, regenerate)
    \/ \E r \in Reqs : StreamAcquire(r)
    \/ \E r \in Reqs : StreamTurn(r)
    \/ \E r \in Reqs : StreamTrim(r)
    \/ \E r \in Reqs : EmptyStream(r)
    \/ \E r \in Reqs : YieldMeta(r)
    \/ \E r \in Reqs : ChatCall(r)
    \/ \E r \in Reqs, chunk \in ConcurrentChunks : NextChunk(r, chunk)
    \/ \E r \in Reqs, exc \in BackendErrors : BackendRaise(r, exc)
    \/ \E r \in Reqs : BackendEnd(r)
    \/ \E r \in Reqs : CommitAcquire(r)
    \/ \E r \in Reqs : CommitAppend(r)
    \/ \E r \in Reqs : CommitTrim(r)
    \/ \E r \in Reqs : YieldDone(r)
    \/ Reset(<<"c", "1">>)

SpecTwoPrompts == Init /\ [][NextTwoPrompts]_vars

\* the user messages of a history, in order
UserMessages(m) == SelectSeq(m, LAMBDA item : item.role = "user")

\* C26: in every session of the store whose history holds a user message, the
\* content of the last user message is the session's last_user.
C26_LastUser ==
    \A i \in 1..Len(CHAT_SESSIONS) :
        LET users == UserMessages(CHAT_SESSIONS[i].messages)
        IN  users # <<>> => Last(users).content = CHAT_SESSIONS[i].last_user

\* a session with two user messages of different content, while a request for
\* the session is in flight
C26_Witness ==
    \E i \in 1..Len(CHAT_SESSIONS) : \E r \in Reqs :
        /\ SESSIONS_LOCK = 0
        /\ Len(UserMessages(CHAT_SESSIONS[i].messages)) >= 2
        /\ UserMessages(CHAT_SESSIONS[i].messages)[1].content # CHAT_SESSIONS[i].last_user
        /\ pc[r] = "iter"
        /\ req[r].chat_id = CHAT_SESSIONS[i].chat_id

====
